---- MODULE Spec2Model ----
(***************************************************************************)
(* A model of gaphor's profile coder (gaphor/codegen/profile_coder.py):    *)
(* type_converter, write_attributes, write_class_def and the class walk of *)
(* generate.                                                               *)
(*                                                                         *)
(* Python strings are sequences of one-character strings, so that lower(), *)
(* "in" (substring), indexing and the code-point order used by sorted()    *)
(* are computed and not assumed.  Python's None is the value None below,   *)
(* which is no sequence of characters.                                     *)
(***************************************************************************)
EXTENDS Integers, Sequences, FiniteSets, TLC

VARIABLES
    elements,     \* the loaded model: class id -> UML.Class (element_factory)
    pc,           \* where the running function is, or the exception it raised
    classes,      \* generate: the filtered, sorted list of classes
    hierarchy,    \* generate: class -> its sorted general and meta classes
    uml_classes,  \* generate: the classes the modeling language resolves
    cls_written,  \* generate: the set handed to write_class_def
    stack,        \* the frames of write_class_def: [cls, i], i the loop position
    idx,          \* generate: position of "for cls in hierarchy.keys()"
    f,            \* the output file, a sequence of lines
    prop,         \* type_converter: its argument
    ret           \* type_converter: its result, or the exception it raised

vars == <<elements, pc, classes, hierarchy, uml_classes, cls_written, stack,
          idx, f, prop, ret>>

----------------------------------------------------------------------------
(* Strings *)

None == <<"<None>">>

UpperCase == <<"A","B","C","D","E","F","G","H","I","J","K","L","M",
               "N","O","P","Q","R","S","T","U","V","W","X","Y","Z">>

LowerCase == <<"a","b","c","d","e","f","g","h","i","j","k","l","m",
               "n","o","p","q","r","s","t","u","v","w","x","y","z">>

\* The characters in use, in code-point order.
Alphabet == <<" ", "*", "1">> \o UpperCase \o LowerCase \o <<"~">>

Ord(c) == CHOOSE i \in 1..Len(Alphabet) : Alphabet[i] = c

\* str.lower()
LowerChar(c) ==
    IF \E i \in 1..Len(UpperCase) : UpperCase[i] = c
    THEN LowerCase[CHOOSE i \in 1..Len(UpperCase) : UpperCase[i] = c]
    ELSE c

lower(s) == [i \in 1..Len(s) |-> LowerChar(s[i])]

\* sub in s
Contains(sub, s) ==
    \E i \in 0..(Len(s) - Len(sub)) : SubSeq(s, i + 1, i + Len(sub)) = sub

\* a < b on str: the first differing character decides, a proper prefix is less
StrLess(a, b) ==
    \E k \in 1..(Len(b)) :
        /\ \A j \in 1..(k - 1) : j <= Len(a) /\ a[j] = b[j]
        /\ \/ k = Len(a) + 1
           \/ k <= Len(a) /\ Ord(a[k]) < Ord(b[k])

StrLeq(a, b) == a = b \/ StrLess(a, b)

\* str(x)
Str(x) == IF x = None THEN <<"N","o","n","e">> ELSE x

\* x or ""
OrEmpty(x) == IF x = None THEN <<>> ELSE x

\* bool(x) of an Optional[str]
Truthy(x) == x # None /\ x # <<>>

sInt == <<"i","n","t">>
sStr == <<"s","t","r">>
sKind == <<"K","i","n","d">>
sBoolean == <<"b","o","o","l","e","a","n">>
sInteger == <<"i","n","t","e","g","e","r">>
sUnlimitedNatural == <<"u","n","l","i","m","i","t","e","d","n","a","t","u","r","a","l">>
sString == <<"s","t","r","i","n","g">>
sValueSpecification == <<"V","a","l","u","e","S","p","e","c","i","f","i","c","a","t","i","o","n">>
sBaseClass == <<"b","a","s","e","C","l","a","s","s">>
sGaphorProfile == <<"G","a","p","h","o","r"," ","P","r","o","f","i","l","e">>
sOne == <<"1">>
sStar == <<"*">>

----------------------------------------------------------------------------
(* An optional element reference: <<>> is None, <<e>> refers to e. *)

NoElement == <<>>

Elem(e) == <<e>>

----------------------------------------------------------------------------
(* type_converter *)

\* The outcome of a call: a returned value or a raised exception.
Returned(v) == [raised |-> "", value |-> v]

Raised(e) == [raised |-> e, value |-> None]

\* type_converter as it would be if a missing type gave None, not an error.
type_converter_ReturnsNone(property) ==
    IF property.type # NoElement
    THEN Returned(Str(property.type[1].name))
    ELSE LET type_value == property.typeValue IN
         IF type_value = None THEN Returned(None)
         ELSE IF lower(type_value) \in {sBoolean, sInteger, sUnlimitedNatural}
              THEN Returned(sInt)
         ELSE IF lower(type_value) = sString \/ type_value = sValueSpecification
              THEN Returned(sStr)
         ELSE Returned(Str(type_value))

type_converter(property) ==
    IF property.type # NoElement
    THEN Returned(Str(property.type[1].name))
    ELSE LET type_value == property.typeValue IN
         IF type_value = None THEN Raised("ValueError")
         ELSE IF lower(type_value) = sBoolean THEN Returned(sInt)
         ELSE IF lower(type_value) \in {sInteger, sUnlimitedNatural}
              THEN Returned(sInt)
         ELSE IF lower(type_value) = sString \/ type_value = sValueSpecification
              THEN Returned(sStr)
         ELSE Returned(Str(type_value))

----------------------------------------------------------------------------
(* sorted(seq, key=...): Python's sort is stable and ascending in the key. *)
(* keys[i] is the key of seq[i].                                           *)

Sorted(seq, keys) ==
    LET n == Len(seq)
        rank(i) == 1 + Cardinality({j \in 1..n :
                        \/ StrLess(keys[j], keys[i])
                        \/ keys[j] = keys[i] /\ j < i})
    IN  [p \in 1..n |-> seq[CHOOSE i \in 1..n : rank(i) = p]]

----------------------------------------------------------------------------
(* write_attributes *)

\* A line of the output file.  cls is the class whose definition
\* or import the line belongs to (0 for the header and the blank line).
Line(kind, cls, name, type, bases) ==
    [kind |-> kind, cls |-> cls, name |-> name, type |-> type, bases |-> bases]

\* sorted(cls.attribute, key=lambda a: a.name or "")
SortedAttributes(attribute) ==
    Sorted(attribute, [i \in 1..Len(attribute) |-> OrEmpty(attribute[i].name)])

\* "if not a.name or a.name == 'baseClass' or a.isDerived: continue"
Skipped(a) == ~Truthy(a.name) \/ a.name = sBaseClass \/ a.isDerived

\* AttributeLine as it would be if the multiplicity were looked at before
\* the "Kind" in the type.
AttributeLine_MultiplicityFirst(cls, a, type_value) ==
    IF type_value \in {sInt, sStr}
    THEN Line("attribute", cls, a.name, type_value, <<>>)
    ELSE IF a.upperValue = sOne
    THEN Line("relation_one", cls, a.name, type_value, <<>>)
    ELSE IF Contains(sKind, type_value)
    THEN Line("enumeration", cls, a.name, <<>>, <<>>)
    ELSE Line("relation_many", cls, a.name, type_value, <<>>)

\* The f.write chosen for an attribute whose converted type is type_value.
AttributeLine(cls, a, type_value) ==
    IF type_value \in {sInt, sStr}
    THEN Line("attribute", cls, a.name, type_value, <<>>)
    ELSE IF Contains(sKind, type_value)
    THEN Line("enumeration", cls, a.name, <<>>, <<>>)
    ELSE IF a.upperValue = sOne
    THEN Line("relation_one", cls, a.name, type_value, <<>>)
    ELSE Line("relation_many", cls, a.name, type_value, <<>>)

\* The loop over the sorted attributes from position i on; lines are the
\* lines written so far.  An exception of type_converter ends the loop.
RECURSIVE AttributeLoop(_, _, _, _)
AttributeLoop(cls, attrs, i, lines) ==
    IF i > Len(attrs) THEN [raised |-> "", lines |-> lines]
    ELSE LET a == attrs[i] IN
         IF Skipped(a) THEN AttributeLoop(cls, attrs, i + 1, lines)
         ELSE LET t == type_converter(a) IN
              IF t.raised # "" THEN [raised |-> t.raised, lines |-> lines]
              ELSE IF Truthy(t.value)
              THEN AttributeLoop(cls, attrs, i + 1,
                       Append(lines, AttributeLine(cls, a, t.value)))
              ELSE AttributeLoop(cls, attrs, i + 1, lines)

\* The lines write_attributes writes for class cls, and the exception it
\* raised, if any.
write_attributes(cls) ==
    LET r == AttributeLoop(cls, SortedAttributes(elements[cls].attribute), 1, <<>>)
        ops == elements[cls].ownedOperation
        opLines == [i \in 1..Len(ops) |->
                       Line("operation", cls, ops[i].name, <<>>, <<>>)]
    IN  IF r.raised # "" THEN r
        ELSE IF r.lines \o opLines = <<>>
        THEN [raised |-> "", lines |-> <<Line("pass", cls, <<>>, <<>>, <<>>)>>]
        ELSE [raised |-> "", lines |-> r.lines \o opLines]

----------------------------------------------------------------------------
(* generate: the filters, the sort and the hierarchy *)

\* UMLModelingLanguage.lookup_element(name): the names the UML package
\* defines.
sClass == <<"C","l","a","s","s">>

UMLNames == {sClass}

lookup_element(name) == name \in UMLNames

filter_uml_classes(cs) ==
    SelectSeq(cs, LAMBDA c : lookup_element(elements[c].name))

\* find_enumerations(classes)[0]
find_enumerations(cs) ==
    SelectSeq(cs, LAMBDA c : ~Contains(sKind, elements[c].name))

filter_out_gaphor_profile(cs) ==
    SelectSeq(cs, LAMBDA c : elements[c].qualifiedName[1] # sGaphorProfile)

\* SortedClasses as it would be without the sort.
SortedClasses_Unsorted(cs) ==
    SelectSeq(cs, LAMBDA c : elements[c].name[1] # "~")

\* sorted((cls for cls in classes if cls.name[0] != "~"), key=lambda c: c.name)
SortedClasses(cs) ==
    LET kept == SelectSeq(cs, LAMBDA c : elements[c].name[1] # "~")
    IN  Sorted(kept, [i \in 1..Len(kept) |-> elements[kept[i]].name])

\* The meta classes connected with extensions: of the attributes that have
\* an association, those named baseClass give a.association.ownedEnd.class_.
get_class_extensions(cls) ==
    LET ends == SelectSeq(elements[cls].attribute,
                    LAMBDA a : a.association # NoElement /\ a.name = sBaseClass)
    IN  [i \in 1..Len(ends) |-> ends[i].association[1]]

create_class_hierarchy(cs) ==
    [cls \in {cs[i] : i \in 1..Len(cs)} |->
        LET parents == elements[cls].general \o get_class_extensions(cls)
        IN  Sorted(parents, [i \in 1..Len(parents) |-> elements[parents[i]].name])]

----------------------------------------------------------------------------
(* The models the generator is run on *)

Property(name, isDerived, type, typeValue, upperValue, association) ==
    [name |-> name, isDerived |-> isDerived, type |-> type,
     typeValue |-> typeValue, upperValue |-> upperValue,
     association |-> association]

Class(name, package, general, attribute, ownedOperation) ==
    [name |-> name, qualifiedName |-> <<package, name>>, general |-> general,
     attribute |-> attribute, ownedOperation |-> ownedOperation]

\* A type element with the given name.
Type(name) == Elem([name |-> name])

sBlock == <<"B","l","o","c","k">>
sRequirement == <<"R","e","q","u","i","r","e","m","e","n","t">>
sActor == <<"A","c","t","o","r">>
sValueKind == <<"V","a","l","u","e","K","i","n","d">>
sTemp == <<"~","T","e","m","p">>
sStereotype == <<"S","t","e","r","e","o","t","y","p","e">>
sSysML == <<"S","y","s","M","L">>
sUML == <<"U","M","L">>

\* The classes of a model, in the order element_factory.lselect gives them.
ClassIds == {1, 2, 3}

lselect == <<1, 2, 3>>

\* The class extended through a baseClass attribute, when there is one.
MetaClassIds == {3}

\* At most this many general classes and extensions per class.
MaxGeneralizations == 2

\* The frames the interpreter allows (sys.getrecursionlimit()).
RecursionLimit == 4

\* At most this many attributes on the class handed to write_attributes.
MaxAttributes == 2

\* The elements of a set of class ids as a list, in ascending order.
RECURSIVE AsList(_)
AsList(S) ==
    IF S = {} THEN <<>>
    ELSE LET m == CHOOSE x \in S : \A y \in S : x <= y
         IN  <<m>> \o AsList(S \ {m})

pText == Property(<<"t","e","x","t">>, FALSE, NoElement, <<"S","t","r","i","n","g">>, None, NoElement)
pId == Property(<<"i","d">>, FALSE, NoElement, <<"I","n","t","e","g","e","r">>, sOne, NoElement)
pDerived == Property(<<"n","a","m","e">>, TRUE, NoElement, None, None, NoElement)
pParts == Property(<<"p","a","r","t","s">>, FALSE, Type(sBlock), None, sStar, NoElement)
pOwner == Property(<<"o","w","n","e","r">>, FALSE, Type(sBlock), None, sOne, NoElement)
pKind == Property(<<"k","i","n","d">>, FALSE, Type(sValueKind), None, sOne, NoElement)
pUntyped == Property(<<"b","o","d","y">>, FALSE, NoElement, None, None, NoElement)
pUnnamedType == Property(<<"r","e","f">>, FALSE, Type(None), None, None, NoElement)
pNoName == Property(None, FALSE, Type(sBlock), None, None, NoElement)
pEmptyName == Property(<<>>, FALSE, NoElement, sString, None, NoElement)
pEmptyType == Property(<<"r","a","w">>, FALSE, NoElement, <<>>, None, NoElement)
pSpec == Property(<<"v","a","l","u","e">>, FALSE, NoElement, sValueSpecification, None, NoElement)
pKindValue == Property(<<"m","o","d","e">>, FALSE, NoElement, sValueKind, None, NoElement)
pPlainBase == Property(sBaseClass, FALSE, Type(sClass), None, None, NoElement)

oVerify == [name |-> <<"v","e","r","i","f","y">>]

\* The third class of a model: an ordinary class, a second class named
\* Block, a class the modeling language resolves, an enumeration, a class
\* whose name starts with "~", or a class of the Gaphor Profile (one of them
\* with a name the modeling language resolves).
ThirdClasses ==
    { [name |-> sActor, package |-> sSysML],
      [name |-> sBlock, package |-> sSysML],
      [name |-> sClass, package |-> sUML],
      [name |-> sValueKind, package |-> sSysML],
      [name |-> sTemp, package |-> sSysML],
      [name |-> sStereotype, package |-> sGaphorProfile],
      [name |-> sClass, package |-> sGaphorProfile] }

\* The attributes of the second class.
BlockAttributes == { <<>>, <<pParts, pKind, pId>>, <<pText, pUntyped>> }

\* The class that has baseClass attributes (a stereotype).
StereotypeIds == {2}

\* The generalizations and extensions of class c.
Parents(c) ==
    { p \in [general : SUBSET ClassIds,
             meta : SUBSET (IF c \in StereotypeIds THEN MetaClassIds ELSE {})] :
        Cardinality(p.general) + Cardinality(p.meta) <= MaxGeneralizations }

\* The attributes of a class: its own and one baseClass end per extension.
WithExtensions(attribute, meta) ==
    attribute \o [i \in 1..Len(AsList(meta)) |->
                    Property(sBaseClass, FALSE, NoElement, None, None,
                             Elem(AsList(meta)[i]))]

\* Every class has a name of at least one character: generate reads
\* cls.name[0] and "Kind" in cls.name of every class.  The first class is
\* named Requirement and the second Block, so lselect is not in name order.
Models ==
    { (1 :> Class(sRequirement, sSysML, AsList(p[1].general),
                  WithExtensions(<<pText, pDerived, pId>>, p[1].meta), <<oVerify>>)
       @@ 2 :> Class(sBlock, sSysML, AsList(p[2].general),
                  WithExtensions(a, p[2].meta), <<>>)
       @@ 3 :> Class(t.name, t.package, AsList(p[3].general),
                  WithExtensions(<<>>, p[3].meta), <<>>)) :
        p \in { q \in [ClassIds -> UNION {Parents(c) : c \in ClassIds}] :
                   \A c \in ClassIds : q[c] \in Parents(c) },
        a \in BlockAttributes, t \in ThirdClasses }

----------------------------------------------------------------------------
(* generate and write_class_def *)

NoProperty == Property(None, FALSE, NoElement, None, None, NoElement)

NoResult == [raised |-> "", value |-> None]

Idle ==
    /\ classes = <<>>
    /\ hierarchy = <<>>
    /\ uml_classes = <<>>
    /\ cls_written = {}
    /\ stack = <<>>
    /\ idx = 1
    /\ f = <<>>

Init ==
    /\ elements \in Models
    /\ pc = "generate"
    /\ Idle
    /\ prop = NoProperty
    /\ ret = NoResult

Header == Line("header", 0, <<>>, <<>>, <<>>)

\* "from gaphor.UML import {cls.name}" for every class of uml_classes
Imports(u) ==
    [i \in 1..Len(u) |-> Line("import", u[i], elements[u[i]].name, <<>>, <<>>)]

\* InitialWritten as it would be if cls_written started empty.
InitialWritten_Empty(u) == {}

\* cls_written: Set[Element] = set(uml_classes)
InitialWritten(u) == {u[i] : i \in 1..Len(u)}

\* generate up to the loop over hierarchy.keys(): filter, sort, build the
\* hierarchy, write the header and the imports.
Generate_Start ==
    /\ pc = "generate"
    /\ LET cs == SortedClasses(filter_out_gaphor_profile(find_enumerations(lselect)))
           u == filter_uml_classes(cs)
       IN  /\ classes' = cs
           /\ hierarchy' = create_class_hierarchy(cs)
           /\ uml_classes' = u
           /\ f' = <<Header>> \o Imports(u)
           /\ cls_written' = InitialWritten(u)
    /\ idx' = 1
    /\ pc' = "walk"
    /\ UNCHANGED <<elements, stack, prop, ret>>

\* "if cls in cls_written: return"
AlreadyWritten(cls) == cls \in cls_written

\* One turn of "for cls in hierarchy.keys()": sort the class's attributes in
\* place and call write_class_def, which returns at once for a written class.
Generate_Loop ==
    /\ pc = "walk"
    /\ stack = <<>>
    /\ idx <= Len(classes)
    /\ LET cls == classes[idx] IN
        /\ elements' = [elements EXCEPT
                           ![cls].attribute = SortedAttributes(elements[cls].attribute)]
        /\ stack' = IF AlreadyWritten(cls) THEN <<>> ELSE <<[cls |-> cls, i |-> 1]>>
    /\ idx' = idx + 1
    /\ UNCHANGED <<pc, classes, hierarchy, uml_classes, cls_written, f, prop, ret>>

\* The frame of the running call of write_class_def.
Top == stack[Len(stack)]

\* LoopDone as it would be if the loop left out the last generalization.
LoopDone_BeforeLast(frame) == frame.i >= Len(hierarchy[frame.cls])

\* "for g in generalizations" has come to its end in this frame.
LoopDone(frame) == frame.i > Len(hierarchy[frame.cls])

\* The generalization the loop of the running call is at.
NextGeneralization == hierarchy[Top.cls][Top.i]

Advance == [stack EXCEPT ![Len(stack)].i = @ + 1]

\* write_class_def(g, ...) for a class already in cls_written returns at once.
WriteClassDef_Return ==
    /\ pc = "walk"
    /\ stack # <<>>
    /\ ~LoopDone(Top)
    /\ AlreadyWritten(NextGeneralization)
    /\ stack' = Advance
    /\ UNCHANGED <<elements, pc, classes, hierarchy, uml_classes, cls_written,
                   idx, f, prop, ret>>

\* "generalizations = hierarchy[cls]" for a class that is no key of hierarchy
WriteClassDef_KeyError ==
    /\ pc = "walk"
    /\ stack # <<>>
    /\ ~LoopDone(Top)
    /\ ~AlreadyWritten(NextGeneralization)
    /\ NextGeneralization \notin DOMAIN hierarchy
    /\ pc' = "KeyError"
    /\ UNCHANGED <<elements, classes, hierarchy, uml_classes, cls_written,
                   stack, idx, f, prop, ret>>

\* The recursive call that the interpreter has no frame left for.
WriteClassDef_RecursionError ==
    /\ pc = "walk"
    /\ stack # <<>>
    /\ ~LoopDone(Top)
    /\ ~AlreadyWritten(NextGeneralization)
    /\ NextGeneralization \in DOMAIN hierarchy
    /\ Len(stack) >= RecursionLimit
    /\ pc' = "RecursionError"
    /\ UNCHANGED <<elements, classes, hierarchy, uml_classes, cls_written,
                   stack, idx, f, prop, ret>>

\* "write_class_def(g, hierarchy, f, cls_written)" for an unwritten class
WriteClassDef_Recurse ==
    /\ pc = "walk"
    /\ stack # <<>>
    /\ ~LoopDone(Top)
    /\ ~AlreadyWritten(NextGeneralization)
    /\ NextGeneralization \in DOMAIN hierarchy
    /\ Len(stack) < RecursionLimit
    /\ stack' = Append(Advance, [cls |-> NextGeneralization, i |-> 1])
    /\ UNCHANGED <<elements, pc, classes, hierarchy, uml_classes, cls_written,
                   idx, f, prop, ret>>

\* "class {cls.name}({', '.join(g.name for g in generalizations)}):"
ClassLine(cls) ==
    Line("class", cls, elements[cls].name, <<>>,
         [i \in 1..Len(hierarchy[cls]) |-> elements[hierarchy[cls][i]].name])

\* After the loop: write the class line and the attributes, add the class
\* to cls_written and return.  A ValueError of write_attributes leaves the
\* class line and the lines before the failing attribute in the file.
WriteClassDef_Write ==
    /\ pc = "walk"
    /\ stack # <<>>
    /\ LoopDone(Top)
    /\ LET r == write_attributes(Top.cls) IN
        /\ f' = Append(f, ClassLine(Top.cls)) \o r.lines
        /\ IF r.raised # ""
           THEN /\ pc' = r.raised
                /\ UNCHANGED <<cls_written, stack>>
           ELSE /\ cls_written' = cls_written \cup {Top.cls}
                /\ stack' = SubSeq(stack, 1, Len(stack) - 1)
                /\ pc' = pc
    /\ UNCHANGED <<elements, classes, hierarchy, uml_classes, idx, prop, ret>>

\* The loop over hierarchy.keys() is over: f.write("\n\n")
Generate_Finish ==
    /\ pc = "walk"
    /\ stack = <<>>
    /\ idx > Len(classes)
    /\ f' = Append(f, Line("blank", 0, <<>>, <<>>, <<>>))
    /\ pc' = "done"
    /\ UNCHANGED <<elements, classes, hierarchy, uml_classes, cls_written,
                   stack, idx, prop, ret>>

Next ==
    \/ Generate_Start
    \/ Generate_Loop
    \/ WriteClassDef_Return
    \/ WriteClassDef_KeyError
    \/ WriteClassDef_RecursionError
    \/ WriteClassDef_Recurse
    \/ WriteClassDef_Write
    \/ Generate_Finish

Spec == Init /\ [][Next]_vars

----------------------------------------------------------------------------
(* type_converter on its own *)

TypeValues ==
    { None, <<>>,
      sBoolean, <<"B","o","o","l","e","a","n">>, <<"B","O","O","L","E","A","N">>,
      sInteger, <<"I","n","t","e","g","e","r">>,
      sUnlimitedNatural,
      <<"U","n","l","i","m","i","t","e","d","N","a","t","u","r","a","l">>,
      sString, <<"S","t","r","i","n","g">>,
      sValueSpecification,
      <<"v","a","l","u","e","s","p","e","c","i","f","i","c","a","t","i","o","n">>,
      sBlock, sValueKind, sInt, <<"N","o","n","e">> }

Types == { NoElement, Type(None), Type(<<>>), Type(sBlock), Type(sValueKind), Type(sStr) }

TypedProperties ==
    { Property(<<"a">>, FALSE, t, v, None, NoElement) : t \in Types, v \in TypeValues }

InitTC ==
    /\ elements = <<>>
    /\ pc = "type_converter"
    /\ Idle
    /\ prop \in TypedProperties
    /\ ret = NoResult

TypeConverter_Call ==
    /\ pc = "type_converter"
    /\ ret' = type_converter(prop)
    /\ pc' = IF ret'.raised # "" THEN ret'.raised ELSE "returned"
    /\ UNCHANGED <<elements, classes, hierarchy, uml_classes, cls_written,
                   stack, idx, f, prop>>

NextTC == TypeConverter_Call

SpecTC == InitTC /\ [][NextTC]_vars

----------------------------------------------------------------------------
(* write_attributes on its own *)

Attributes ==
    { pText, pId, pDerived, pParts, pOwner, pKind, pUntyped, pUnnamedType,
      pNoName, pEmptyName, pEmptyType, pSpec, pKindValue, pPlainBase }

AttributeLists == UNION { [1..n -> Attributes] : n \in 0..MaxAttributes }

InitWA ==
    /\ elements \in { 1 :> Class(sBlock, sSysML, <<>>, a, o) :
                        a \in AttributeLists, o \in { <<>>, <<oVerify>> } }
    /\ pc = "write_attributes"
    /\ Idle
    /\ prop = NoProperty
    /\ ret = NoResult

WriteAttributes_Call ==
    /\ pc = "write_attributes"
    /\ LET r == write_attributes(1) IN
        /\ f' = r.lines
        /\ pc' = IF r.raised # "" THEN r.raised ELSE "returned"
    /\ UNCHANGED <<elements, classes, hierarchy, uml_classes, cls_written,
                   stack, idx, prop, ret>>

NextWA == WriteAttributes_Call

SpecWA == InitWA /\ [][NextWA]_vars

----------------------------------------------------------------------------
(* Helpers of the properties *)

Range(s) == {s[i] : i \in 1..Len(s)}

\* The positions of f that hold a line of the given kind for class c.
LinesOf(kind, c) == {n \in 1..Len(f) : f[n].kind = kind /\ f[n].cls = c}

AttributeKinds == {"attribute", "enumeration", "relation_one", "relation_many"}

\* A sequence of characters, that is a str and not None.
IsStr(v) == \A i \in 1..Len(v) : v[i] \in Range(Alphabet)

Keys == DOMAIN hierarchy

\* The classes reached from c through one or more hierarchy entries.
RECURSIVE ReachedFrom(_, _)
ReachedFrom(S, n) ==
    IF n = 0 THEN {}
    ELSE LET step == UNION {Range(hierarchy[c]) : c \in S \cap Keys}
         IN  step \cup ReachedFrom(step, n - 1)

Ancestors(c) == ReachedFrom({c}, Cardinality(ClassIds))

----------------------------------------------------------------------------
(* C2 *)

\* C2: type_converter raises ValueError exactly when the property has no
\* type and its typeValue is None; in every other case it returns a str
\* and raises nothing.
C2_RaisesExactlyWhenNoType ==
    pc # "type_converter" =>
        /\ pc \in {"returned", "ValueError"}
        /\ pc = "ValueError" <=> (prop.type = NoElement /\ prop.typeValue = None)
        /\ pc = "returned" => ret.raised = "" /\ ret.value # None /\ IsStr(ret.value)

C2_Witness ==
    /\ pc = "ValueError"
    /\ ret.raised = "ValueError"
    /\ prop.type = NoElement
    /\ prop.typeValue = None

----------------------------------------------------------------------------
(* C5 *)

\* C5: type_converter gives the type's name for a property that has a type,
\* whatever its typeValue; without a type, "int" for a typeValue that is,
\* ignoring case, boolean, integer or unlimitednatural, "str" for one that
\* is, ignoring case, string or exactly ValueSpecification, and any other
\* typeValue unchanged.
C5_TypeMapping ==
    pc = "returned" =>
        IF prop.type # NoElement THEN ret.value = prop.type[1].name
        ELSE IF lower(prop.typeValue) \in {sBoolean, sInteger, sUnlimitedNatural}
        THEN ret.value = sInt
        ELSE IF lower(prop.typeValue) = sString
                \/ prop.typeValue = sValueSpecification
        THEN ret.value = sStr
        ELSE ret.value = prop.typeValue

\* The same mapping for the properties whose type, if any, has a name: this
\* part holds.
C5_NamedTypeMapping ==
    (prop.type # NoElement => prop.type[1].name # None) => C5_TypeMapping

----------------------------------------------------------------------------
(* C6 *)

\* The attributes write_attributes has to write a line for.
Writable(a) ==
    /\ a.name # None
    /\ a.name # <<>>
    /\ a.name # sBaseClass
    /\ ~a.isDerived
    /\ type_converter(a).raised = ""
    /\ type_converter(a).value # <<>>

\* The kind of the line of a writable attribute: the first rule that matches.
ExpectedKind(a) ==
    LET t == type_converter(a).value IN
    CASE t = sInt \/ t = sStr -> "attribute"
      [] t \notin {sInt, sStr} /\ Contains(sKind, t) -> "enumeration"
      [] t \notin {sInt, sStr} /\ ~Contains(sKind, t) /\ a.upperValue = sOne
            -> "relation_one"
      [] OTHER -> "relation_many"

\* What a line says: its kind, the attribute's name and, but for an
\* enumeration, the converted type.
Said(l) == <<l.kind, l.name, l.type>>

Expected(a) ==
    <<ExpectedKind(a), a.name,
      IF ExpectedKind(a) = "enumeration" THEN <<>> ELSE type_converter(a).value>>

\* C6: when write_attributes returns, the file holds exactly one line for
\* every attribute that has a name, is not named baseClass, is not derived
\* and has a non-empty converted type, of the kind the first matching rule
\* gives, no line for any other attribute, one line per operation, and the
\* line "pass" if and only if no attribute line and no operation line was
\* written.
C6_OneLinePerWritableAttribute ==
    pc = "returned" =>
        LET attrs == elements[1].attribute
            ops == elements[1].ownedOperation
            written == {n \in 1..Len(f) : f[n].kind \in AttributeKinds}
            writable == {i \in 1..Len(attrs) : Writable(attrs[i])}
            said == {Said(f[n]) : n \in written}
                        \cup {Expected(attrs[i]) : i \in writable}
        IN  /\ \A l \in said :
                 Cardinality({n \in written : Said(f[n]) = l})
                     = Cardinality({i \in writable : Expected(attrs[i]) = l})
            /\ Cardinality(LinesOf("operation", 1)) = Len(ops)
            /\ Cardinality(LinesOf("pass", 1)) <= 1
            /\ LinesOf("pass", 1) # {} <=>
                   (written = {} /\ LinesOf("operation", 1) = {})
            /\ \A n \in 1..Len(f) :
                   f[n].kind \in AttributeKinds \cup {"operation", "pass"}

\* write_attributes has returned from a class with an attribute it skips and
\* one it writes as relation_one.
C6_Witness ==
    /\ pc = "returned"
    /\ \E i \in 1..Len(elements[1].attribute) : ~Writable(elements[1].attribute[i])
    /\ \E n \in 1..Len(f) : f[n].kind = "relation_one"

----------------------------------------------------------------------------
(* C1 *)

\* The class whose definition line a step appends to the file, as a set.
Emitted ==
    IF Len(f') > Len(f) /\ f'[Len(f) + 1].kind = "class"
    THEN {f'[Len(f) + 1].cls}
    ELSE {}

\* C1: whenever a step writes the definition line of a class, every class
\* of its hierarchy entry is in cls_written already, and is either one of
\* the imported modeling-language classes or has its own definition line
\* earlier in the file.
C1_WrittenAfterGeneralizations ==
    [][\A c \in Emitted : \A g \in Range(hierarchy[c]) :
           /\ g \in cls_written
           /\ \/ g \in Range(uml_classes)
              \/ LinesOf("class", g) # {}]_vars

\* A class with two generalizations, neither of them imported, has been
\* written.
C1_Witness ==
    \E n \in 1..Len(f) :
        /\ f[n].kind = "class"
        /\ Cardinality(Range(hierarchy[f[n].cls]) \ Range(uml_classes)) = 2

----------------------------------------------------------------------------
(* C3 *)

NameOf(n) == f[n].name

\* Within each class definition the attribute lines are in ascending order
\* of attribute name.
AttributesAscending ==
    \A m, n \in 1..Len(f) :
        (/\ m < n
         /\ f[m].kind \in AttributeKinds
         /\ f[n].kind \in AttributeKinds
         /\ f[m].cls = f[n].cls) => StrLeq(NameOf(m), NameOf(n))

\* C3 as stated: the class definition lines are in ascending order of class
\* name, and so are the attribute lines within each class definition.
C3_SortedByName ==
    /\ \A m, n \in 1..Len(f) :
           (m < n /\ f[m].kind = "class" /\ f[n].kind = "class")
               => StrLeq(NameOf(m), NameOf(n))
    /\ AttributesAscending

\* C3, amended: a class definition line comes before one of a smaller name
\* only if its class is a generalization, direct or not, of a class whose
\* name is not greater than that smaller name (it was written ahead of its
\* turn, for that class); the attribute lines within each class definition
\* are in ascending order of attribute name.
C3_SortedByNameAfterGeneralizations ==
    /\ \A m, n \in 1..Len(f) :
           (m < n /\ f[m].kind = "class" /\ f[n].kind = "class")
               => \/ StrLeq(NameOf(m), NameOf(n))
                  \/ \E r \in Keys :
                        /\ StrLeq(elements[r].name, NameOf(n))
                        /\ f[m].cls \in Ancestors(r)
    /\ AttributesAscending

\* The walk is over; a class was written before one of a smaller name, and a
\* class definition holds three attribute lines.
C3_Witness ==
    /\ pc = "done"
    /\ \E m, n \in 1..Len(f) :
           /\ m < n /\ f[m].kind = "class" /\ f[n].kind = "class"
           /\ StrLess(NameOf(n), NameOf(m))
    /\ \E c \in Keys :
           Cardinality({n \in 1..Len(f) :
                            f[n].kind \in AttributeKinds /\ f[n].cls = c}) = 3

----------------------------------------------------------------------------
(* C4 *)

\* The keys of the hierarchy that the modeling language resolves.
Resolved == {c \in Keys : lookup_element(elements[c].name)}

\* C4: no class ever has more than one definition line; a key of the
\* hierarchy that the modeling language resolves has exactly one import
\* line and no definition line; no other class has an import line; and
\* when the walk is over every key of the hierarchy that is not resolved
\* has exactly one definition line.
C4_OneDefinitionOrOneImport ==
    pc # "generate" =>
        /\ \A c \in ClassIds : Cardinality(LinesOf("class", c)) <= 1
        /\ \A c \in Resolved :
               /\ Cardinality(LinesOf("import", c)) = 1
               /\ LinesOf("class", c) = {}
        /\ \A c \in ClassIds \ Resolved : LinesOf("import", c) = {}
        /\ pc = "done" =>
               \A c \in Keys \ Resolved : Cardinality(LinesOf("class", c)) = 1

\* The walk is over in a model where two classes list the same unresolved
\* class and one class lists a resolved one.
C4_Witness ==
    /\ pc = "done"
    /\ \E c \in Keys \ Resolved :
           Cardinality({d \in Keys \ {c} : c \in Range(hierarchy[d])}) = 2
    /\ \E d \in Keys : Range(hierarchy[d]) \cap Resolved # {}

----------------------------------------------------------------------------
(* C7 *)

\* C7: every call of write_class_def returns: the walk never runs out of
\* frames.
C7_WalkReturns == pc # "RecursionError"

====
